---- MODULE Spec2Model ----
(***************************************************************************)
(* The product catalog and order ledger of the e-commerce backend:         *)
(* routes/products.js, routes/orders.js and database.js.                   *)
(*                                                                         *)
(* The store is one SQLite connection.  Every statement handed to it       *)
(* (db.get / db.run) executes atomically; the handler's callback only      *)
(* computes from the statement's result and from the request's own locals, *)
(* so a statement and its callback are one step.  A request is therefore   *)
(* a handler step (validation, synchronous) followed by one or two store   *)
(* steps, and steps of different requests interleave freely.               *)
(*                                                                         *)
(* Numbers are JavaScript numbers restricted to integers (money in whole   *)
(* currency units, as in the seed data).                                   *)
(***************************************************************************)
EXTENDS Integers, Sequences, FiniteSets, TLC

\* Number of requests that can be in flight at the same time.
MaxReq == 2
\* Number of Products that can be created on top of the seeded catalog.
MaxNewProducts == 2
\* Number of Orders that can be created.
MaxNewOrders == 2

\* Largest quantity of an order in the ledgers the reports are run on.
MaxSold == 2

Reqs == 1..MaxReq

-----------------------------------------------------------------------------
(* JavaScript values of a JSON request body, and the coercions the         *)
(* handlers apply to them.                                                 *)

Undef == [t |-> "undefined", n |-> 0, s |-> ""]
NaN == [t |-> "NaN", n |-> 0, s |-> ""]
True == [t |-> "boolean", n |-> 1, s |-> ""]
Num(n) == [t |-> "number", n |-> n, s |-> ""]
Str(s) == [t |-> "string", n |-> 0, s |-> s]

\* Number(s) for the string literals the requests use.
StringToNumber(s) ==
    CASE s = "" -> Num(0)
      [] s = "0x10" -> Num(16)
      [] OTHER -> NaN

\* parseFloat(s) for the same literals: the longest decimal prefix.
StringParseFloat(s) ==
    CASE s = "0x10" -> Num(0)
      [] OTHER -> NaN

\* !v
Falsy(v) ==
    \/ v.t \in {"undefined", "NaN"}
    \/ v.t = "number" /\ v.n = 0
    \/ v.t = "string" /\ v.s = ""
    \/ v.t = "boolean" /\ v.n = 0

\* Number(v), the coercion behind isNaN(v), v <= 0 and v * w
ToNumber(v) ==
    CASE v.t = "number" -> v
      [] v.t = "boolean" -> Num(v.n)
      [] v.t = "string" -> StringToNumber(v.s)
      [] OTHER -> NaN

\* isNaN(v)
IsNaN(v) == ToNumber(v).t = "NaN"

\* v <= 0 (false when v coerces to NaN)
LeqZero(v) == ToNumber(v).t = "number" /\ ToNumber(v).n <= 0

\* parseFloat(v): v is converted to a string first ("true" for a boolean)
ParseFloat(v) ==
    CASE v.t = "number" -> v
      [] v.t = "string" -> StringParseFloat(v.s)
      [] OTHER -> NaN

\* v * w
Times(v, w) ==
    IF IsNaN(v) \/ IsNaN(w) THEN NaN ELSE Num(ToNumber(v).n * ToNumber(w).n)

\* parseFloat(x.toFixed(2)): x rounded to 2 decimals; integral x is unchanged
ToFixed2(x) == x

\* parseInt(v) of a numeric value
ParseInt(v) == ToNumber(v)

-----------------------------------------------------------------------------
(* The store: the two tables of database.js and their AUTOINCREMENT        *)
(* counters (sqlite_sequence).  PRAGMA foreign_keys is never switched on,  *)
(* so the FOREIGN KEY clause of Orders is not enforced by SQLite.          *)

VARIABLES
    products,     \* rows of Products: [id, name, price, created_at]
    orders,       \* rows of Orders: [order_id, product_id, quantity, total_price, order_date]
    seqProducts,  \* sqlite_sequence of Products: the largest id ever assigned
    seqOrders,    \* sqlite_sequence of Orders
    req           \* the requests: body and params, position, locals, response

vars == <<products, orders, seqProducts, seqOrders, req>>
store == <<products, orders, seqProducts, seqOrders>>

sampleProducts ==
    << <<"Laptop", 74699>>, <<"Wireless Mouse", 2490>>, <<"Keyboard", 4980>>,
       <<"Monitor 24", 16599>>, <<"USB Cable", 830>>, <<"Headphones", 6640>>,
       <<"Webcam", 4150>>, <<"Desk Lamp", 2900>> >>

\* The Products table after seedProducts: ids 1..8 in insertion order.
seedProducts ==
    { [id |-> i, name |-> sampleProducts[i][1], price |-> sampleProducts[i][2],
       created_at |-> 0] : i \in 1..Len(sampleProducts) }

\* DEFAULT CURRENT_TIMESTAMP, as a logical time that orders the inserts into a table:
\* the row given id n is stamped n (the seeded rows, written in one batch, 0).
Now(id) == id

SetMax(S) == CHOOSE x \in S : \A y \in S : y <= x

\* NextId without AUTOINCREMENT: one more than the largest rowid now in the table.
NextIdMaxRow(seq, ids) == SetMax(ids \cup {0}) + 1

\* NextId off by one: the last id assigned, not the next.
NextIdStale(seq, ids) == SetMax(ids \cup {seq})

\* INTEGER PRIMARY KEY AUTOINCREMENT: one more than the largest rowid ever used.
NextId(seq, ids) == SetMax(ids \cup {seq}) + 1

\* SELECT * FROM Products WHERE id = ?
SelectProduct(v) == { p \in products : v.t = "number" /\ p.id = v.n }

\* SelectOrderJoin as a LEFT JOIN: an order without its product gives a row too.
SelectOrderLeftJoin(id) ==
    { [order_id |-> o.order_id, product_id |-> o.product_id,
       product_name |-> IF \E p \in products : p.id = o.product_id
                        THEN (CHOOSE p \in products : p.id = o.product_id).name ELSE "",
       unit_price |-> IF \E p \in products : p.id = o.product_id
                      THEN (CHOOSE p \in products : p.id = o.product_id).price ELSE 0,
       quantity |-> o.quantity, total_price |-> o.total_price,
       order_date |-> o.order_date] :
         o \in { x \in orders : x.order_id = id } }

\* SELECT o.*, p.price, p.name FROM Orders o JOIN Products p ON o.product_id = p.id
\* WHERE o.order_id = ?  (an inner join: an order without its product gives no row)
SelectOrderJoin(id) ==
    { [order_id |-> o.order_id, product_id |-> o.product_id, product_name |-> p.name,
       unit_price |-> p.price, quantity |-> o.quantity, total_price |-> o.total_price,
       order_date |-> o.order_date] :
         <<o, p>> \in { op \in orders \X products :
                          op[1].order_id = id /\ op[1].product_id = op[2].id } }

-----------------------------------------------------------------------------
(* Requests.  pc: "idle" (no request), "get" (first statement queued),     *)
(* "run" (write statement queued), "done" (response sent).  sent counts    *)
(* the responses written for the request.                                  *)

NoData == <<>>

Idle ==
    [op |-> "none", pc |-> "idle", id |-> 0, name |-> Undef, price |-> Undef,
     product_id |-> Undef, quantity |-> Undef, row |-> NoData,
     status |-> 0, message |-> "", data |-> NoData, sent |-> 0]

\* A slot takes a new request when it holds none or its response has been sent.
Free(r) == req[r].pc \in {"idle", "done"}

\* Respond without the return that ends the handler: the success response follows.
RespondAndGoOn(q, status, message, data) ==
    [q EXCEPT !.pc = "done", !.status = status, !.message = message, !.data = data,
              !.sent = @ + (IF status >= 400 THEN 2 ELSE 1)]

\* return res.status(status).json({message, data})
Respond(q, status, message, data) ==
    [q EXCEPT !.pc = "done", !.status = status, !.message = message, !.data = data,
              !.sent = @ + 1]

Init ==
    /\ products = seedProducts
    /\ seqProducts = Len(sampleProducts)
    /\ orders = {}
    /\ seqOrders = 0
    /\ req = [r \in Reqs |-> Idle]

FirstNewId == Len(sampleProducts) + 1

\* The inputs of the requests: well-formed bodies, and bodies the handlers may reject.
ValidNames == {Str("Widget")}
ValidPrices == {Num(100)}
ValidProductIds == {Num(1), Num(FirstNewId)}
ValidQuantities == {Num(1), Num(2)}
NameArgs == ValidNames \cup {Undef, Str("")}
PriceArgs == ValidPrices \cup {Undef, Num(0), Num(-5), Str("abc"), Str("0x10"), True}
ProductIdArgs == ValidProductIds \cup {Undef}
QuantityArgs == ValidQuantities \cup {Undef, Num(0), Num(-1), Str("abc")}
\* req.params.id
ProductIdParams == {1, FirstNewId}
OrderIdParams == {1, 2}

InFlight(op) == Cardinality({ r \in Reqs : req[r].op = op /\ ~Free(r) })

\* The statement request r has queued fails (I/O error, database locked, ...): it
\* changes nothing, and the callback's `if (err) return res.status(500)...` answers.
\* StoreError for an INSERT INTO Orders that fails after AUTOINCREMENT has moved on.
StoreErrorKeepsCounter(r) ==
    /\ req[r].pc \in {"get", "run"}
    /\ req' = [req EXCEPT ![r] = Respond(@, 500, "SQLITE_ERROR", NoData)]
    /\ IF req[r].op = "createOrder" /\ req[r].pc = "run"
       THEN seqOrders' = seqOrders + 1 /\ UNCHANGED <<products, orders, seqProducts>>
       ELSE UNCHANGED store

StoreError(r) ==
    /\ req[r].pc \in {"get", "run"}
    /\ req' = [req EXCEPT ![r] = Respond(@, 500, "SQLITE_ERROR", NoData)]
    /\ UNCHANGED store

-----------------------------------------------------------------------------
(* routes/products.js                                                      *)

\* The validation shared by POST /products and PUT /products/:id; "" when the body passes.
ValidateProduct(name, price) ==
    IF Falsy(name) \/ Falsy(price) THEN "Name and price are required"
    ELSE IF IsNaN(price) \/ LeqZero(price) THEN "Price must be a positive number"
    ELSE ""

\* The row INSERT INTO Products (name, price) VALUES (?, ?) adds.
InsertedProduct(id, name, price, now) ==
    [id |-> id, name |-> name.s, price |-> price.n, created_at |-> now]

\* UpdatedProducts without its WHERE clause: every row is rewritten.
UpdatedProductsAllRows(id, name, price) ==
    { [p EXCEPT !.name = name.s, !.price = price.n] : p \in products }

\* UPDATE Products SET name = ?, price = ? WHERE id = ?
UpdatedProducts(id, name, price) ==
    { IF p.id = id THEN [p EXCEPT !.name = name.s, !.price = price.n] ELSE p :
        p \in products }

\* GET /products/:id
GetProductHandler(r, ids) ==
    /\ Free(r)
    /\ \E id \in ids :
         req' = [req EXCEPT ![r] = [Idle EXCEPT !.op = "getProduct", !.pc = "get", !.id = id]]
    /\ UNCHANGED store

GetProductGet(r) ==
    /\ req[r].op = "getProduct" /\ req[r].pc = "get"
    /\ LET rows == SelectProduct(Num(req[r].id)) IN
         req' = [req EXCEPT ![r] =
                   IF rows = {} THEN Respond(@, 404, "Product not found", NoData)
                   ELSE Respond(@, 200, "", << CHOOSE p \in rows : TRUE >>)]
    /\ UNCHANGED store

\* POST /products
CreateProductHandler(r, names, prices) ==
    /\ Free(r)
    /\ seqProducts + InFlight("createProduct") < Len(sampleProducts) + MaxNewProducts
    /\ \E name \in names, price \in prices :
         LET q == [Idle EXCEPT !.op = "createProduct", !.name = name, !.price = price]
             invalid == ValidateProduct(name, price)
         IN  req' = [req EXCEPT ![r] =
                       IF invalid # "" THEN Respond(q, 400, invalid, NoData)
                       ELSE [q EXCEPT !.pc = "run"]]
    /\ UNCHANGED store

CreateProductRun(r) ==
    /\ req[r].op = "createProduct" /\ req[r].pc = "run"
    /\ LET price == ParseFloat(req[r].price)
           lastID == NextId(seqProducts, { p.id : p \in products })
       IN  IF price.t = "NaN"   \* bound as NULL: price REAL NOT NULL fails
           THEN /\ req' = [req EXCEPT ![r] =
                            Respond(@, 500, "NOT NULL constraint failed: Products.price", NoData)]
                /\ UNCHANGED store
           ELSE /\ products' = products \cup
                                 {InsertedProduct(lastID, req[r].name, price, Now(lastID))}
                /\ seqProducts' = lastID
                /\ req' = [req EXCEPT ![r] =
                            Respond(@, 201, "Product created successfully",
                                    << [id |-> lastID, name |-> req[r].name, price |-> price] >>)]
                /\ UNCHANGED <<orders, seqOrders>>

\* PUT /products/:id
UpdateProductHandler(r, ids, names, prices) ==
    /\ Free(r)
    /\ \E id \in ids, name \in names, price \in prices :
         LET q == [Idle EXCEPT !.op = "updateProduct", !.id = id, !.name = name,
                               !.price = price]
             invalid == ValidateProduct(name, price)
         IN  req' = [req EXCEPT ![r] =
                       IF invalid # "" THEN Respond(q, 400, invalid, NoData)
                       ELSE [q EXCEPT !.pc = "run"]]
    /\ UNCHANGED store

UpdateProductRun(r) ==
    /\ req[r].op = "updateProduct" /\ req[r].pc = "run"
    /\ LET price == ParseFloat(req[r].price)
           changes == Cardinality(SelectProduct(Num(req[r].id)))
       IN  IF changes = 0
           THEN /\ req' = [req EXCEPT ![r] = Respond(@, 404, "Product not found", NoData)]
                /\ UNCHANGED store
           ELSE IF price.t = "NaN"   \* bound as NULL: price REAL NOT NULL fails
           THEN /\ req' = [req EXCEPT ![r] =
                            Respond(@, 500, "NOT NULL constraint failed: Products.price", NoData)]
                /\ UNCHANGED store
           ELSE /\ products' = UpdatedProducts(req[r].id, req[r].name, price)
                /\ req' = [req EXCEPT ![r] =
                            Respond(@, 200, "Product updated successfully",
                                    << [id |-> req[r].id, name |-> req[r].name,
                                        price |-> price] >>)]
                /\ UNCHANGED <<orders, seqProducts, seqOrders>>

\* DELETE /products/:id
DeleteProductHandler(r, ids) ==
    /\ Free(r)
    /\ \E id \in ids :
         req' = [req EXCEPT ![r] = [Idle EXCEPT !.op = "deleteProduct", !.pc = "run", !.id = id]]
    /\ UNCHANGED store

\* DeleteProductRun with ON DELETE CASCADE: the orders of the product go with it.
DeleteProductRunCascade(r) ==
    /\ req[r].op = "deleteProduct" /\ req[r].pc = "run"
    /\ LET changes == Cardinality(SelectProduct(Num(req[r].id))) IN
         req' = [req EXCEPT ![r] =
                   IF changes = 0 THEN Respond(@, 404, "Product not found", NoData)
                   ELSE Respond(@, 200, "Product deleted successfully", NoData)]
    /\ products' = { p \in products : p.id # req[r].id }
    /\ orders' = { o \in orders : o.product_id # req[r].id }
    /\ UNCHANGED <<seqProducts, seqOrders>>

\* DeleteProductRun that answers 200 and leaves the row in the table.
DeleteProductRunKeeps(r) ==
    /\ req[r].op = "deleteProduct" /\ req[r].pc = "run"
    /\ LET changes == Cardinality(SelectProduct(Num(req[r].id))) IN
         req' = [req EXCEPT ![r] =
                   IF changes = 0 THEN Respond(@, 404, "Product not found", NoData)
                   ELSE Respond(@, 200, "Product deleted successfully", NoData)]
    /\ UNCHANGED store

\* db.run('DELETE FROM Products WHERE id = ?', [id], ...)
DeleteProductRun(r) ==
    /\ req[r].op = "deleteProduct" /\ req[r].pc = "run"
    /\ LET changes == Cardinality(SelectProduct(Num(req[r].id))) IN
         req' = [req EXCEPT ![r] =
                   IF changes = 0 THEN Respond(@, 404, "Product not found", NoData)
                   ELSE Respond(@, 200, "Product deleted successfully", NoData)]
    /\ products' = { p \in products : p.id # req[r].id }
    /\ UNCHANGED <<orders, seqProducts, seqOrders>>

-----------------------------------------------------------------------------
(* routes/orders.js                                                        *)

\* The quantity check shared by POST /orders and PUT /orders/:id; "" when it passes.
ValidateQuantity(quantity) ==
    IF IsNaN(quantity) \/ LeqZero(quantity) THEN "Quantity must be greater than 0" ELSE ""

\* TotalPrice that forgets the quantity: the unit price.
TotalPriceUnit(price, quantity) == Num(price)

\* const total_price = product.price * quantity
TotalPrice(price, quantity) == Times(Num(price), quantity)

\* InsertedOrder with the first two parameters bound in the wrong order.
InsertedOrderSwapped(id, product_id, quantity, total_price, now) ==
    [order_id |-> id, product_id |-> ToNumber(quantity).n, quantity |-> product_id.n,
     total_price |-> total_price.n, order_date |-> now]

\* The row INSERT INTO Orders (product_id, quantity, total_price) VALUES (?, ?, ?) adds.
InsertedOrder(id, product_id, quantity, total_price, now) ==
    [order_id |-> id, product_id |-> product_id.n, quantity |-> ToNumber(quantity).n,
     total_price |-> total_price.n, order_date |-> now]

\* UpdatedOrders that carries the stored total_price forward.
UpdatedOrdersQuantityOnly(id, quantity, total_price) ==
    { IF o.order_id = id THEN [o EXCEPT !.quantity = ToNumber(quantity).n] ELSE o :
        o \in orders }

\* UpdatedOrders whose statement is SET quantity = MAX(quantity, ?), total_price = ?.
UpdatedOrdersMaxQuantity(id, quantity, total_price) ==
    { IF o.order_id = id
      THEN [o EXCEPT !.quantity = IF @ > ToNumber(quantity).n THEN @
                                  ELSE ToNumber(quantity).n,
                     !.total_price = total_price.n]
      ELSE o : o \in orders }

\* UPDATE Orders SET quantity = ?, total_price = ? WHERE order_id = ?
UpdatedOrders(id, quantity, total_price) ==
    { IF o.order_id = id
      THEN [o EXCEPT !.quantity = ToNumber(quantity).n, !.total_price = total_price.n]
      ELSE o : o \in orders }

\* POST /orders
CreateOrderHandler(r, pids, quantities) ==
    /\ Free(r)
    /\ seqOrders + InFlight("createOrder") < MaxNewOrders
    /\ \E product_id \in pids, quantity \in quantities :
         LET q == [Idle EXCEPT !.op = "createOrder", !.product_id = product_id,
                               !.quantity = quantity]
         IN  req' = [req EXCEPT ![r] =
                       IF Falsy(product_id) \/ Falsy(quantity)
                       THEN Respond(q, 400, "Product ID and quantity are required", NoData)
                       ELSE IF ValidateQuantity(quantity) # ""
                       THEN Respond(q, 400, ValidateQuantity(quantity), NoData)
                       ELSE [q EXCEPT !.pc = "get"]]
    /\ UNCHANGED store

\* CreateOrderGet without the product lookup: the client's product_id is trusted.
CreateOrderGetUnchecked(r) ==
    /\ req[r].op = "createOrder" /\ req[r].pc = "get"
    /\ req' = [req EXCEPT ![r] =
                 [@ EXCEPT !.pc = "run",
                           !.row = << [id |-> req[r].product_id.n, name |-> "",
                                       price |-> 0, created_at |-> 0] >>]]
    /\ UNCHANGED store

\* CreateOrderGet whose query has lost its WHERE clause: db.get returns the first
\* Product row, whatever the product_id of the request.
CreateOrderGetFirstRow(r) ==
    /\ req[r].op = "createOrder" /\ req[r].pc = "get"
    /\ LET rows == products IN
         req' = [req EXCEPT ![r] =
                   IF rows = {} THEN Respond(@, 404, "Product not found", NoData)
                   ELSE [@ EXCEPT !.pc = "run",
                                  !.row = << CHOOSE p \in rows :
                                               \A x \in rows : p.id <= x.id >>]]
    /\ UNCHANGED store

\* db.get(getProductQuery, [product_id], ...)
CreateOrderGet(r) ==
    /\ req[r].op = "createOrder" /\ req[r].pc = "get"
    /\ LET rows == SelectProduct(req[r].product_id) IN
         req' = [req EXCEPT ![r] =
                   IF rows = {} THEN Respond(@, 404, "Product not found", NoData)
                   ELSE [@ EXCEPT !.pc = "run", !.row = << CHOOSE p \in rows : TRUE >>]]
    /\ UNCHANGED store

\* CreateOrderRun that reads the price again inside the INSERT: the total is computed
\* from the price stored when the row is written, 0 when the product is gone.
CreateOrderRunRereads(r) ==
    /\ req[r].op = "createOrder" /\ req[r].pc = "run"
    /\ LET product == req[r].row[1]
           now == SelectProduct(req[r].product_id)
           total_price == TotalPrice(IF now = {} THEN 0 ELSE (CHOOSE p \in now : TRUE).price,
                                     req[r].quantity)
           lastID == NextId(seqOrders, { o.order_id : o \in orders })
       IN  /\ orders' = orders \cup
                          {InsertedOrder(lastID, req[r].product_id, req[r].quantity,
                                         total_price, Now(lastID))}
           /\ seqOrders' = lastID
           /\ req' = [req EXCEPT ![r] =
                       Respond(@, 201, "Order created successfully",
                               << [order_id |-> lastID, product_id |-> req[r].product_id,
                                   product_name |-> product.name,
                                   quantity |-> req[r].quantity,
                                   total_price |-> ToFixed2(total_price),
                                   order_date |-> Now(lastID)] >>)]
    /\ UNCHANGED <<products, seqProducts>>

\* db.run(insertOrderQuery, [product_id, quantity, total_price], ...)
CreateOrderRun(r) ==
    /\ req[r].op = "createOrder" /\ req[r].pc = "run"
    /\ LET product == req[r].row[1]
           total_price == TotalPrice(product.price, req[r].quantity)
           lastID == NextId(seqOrders, { o.order_id : o \in orders })
       IN  /\ orders' = orders \cup
                          {InsertedOrder(lastID, req[r].product_id, req[r].quantity,
                                         total_price, Now(lastID))}
           /\ seqOrders' = lastID
           /\ req' = [req EXCEPT ![r] =
                       Respond(@, 201, "Order created successfully",
                               << [order_id |-> lastID, product_id |-> req[r].product_id,
                                   product_name |-> product.name,
                                   quantity |-> req[r].quantity,
                                   total_price |-> ToFixed2(total_price),
                                   order_date |-> Now(lastID)] >>)]
    /\ UNCHANGED <<products, seqProducts>>

\* GET /orders/:id
GetOrderHandler(r, ids) ==
    /\ Free(r)
    /\ \E id \in ids :
         req' = [req EXCEPT ![r] = [Idle EXCEPT !.op = "getOrder", !.pc = "get", !.id = id]]
    /\ UNCHANGED store

GetOrderGet(r) ==
    /\ req[r].op = "getOrder" /\ req[r].pc = "get"
    /\ LET rows == SelectOrderJoin(req[r].id) IN
         req' = [req EXCEPT ![r] =
                   IF rows = {} THEN Respond(@, 404, "Order not found", NoData)
                   ELSE Respond(@, 200, "", << CHOOSE o \in rows : TRUE >>)]
    /\ UNCHANGED store

\* PUT /orders/:id
UpdateOrderHandler(r, ids, pids, quantities) ==
    /\ Free(r)
    /\ \E id \in ids, product_id \in pids, quantity \in quantities :
         \* const { quantity } = req.body: a product_id in the body is never read
         LET q == [Idle EXCEPT !.op = "updateOrder", !.id = id, !.product_id = product_id,
                               !.quantity = quantity]
         IN  req' = [req EXCEPT ![r] =
                       IF Falsy(quantity)
                       THEN Respond(q, 400, "Quantity is required", NoData)
                       ELSE IF ValidateQuantity(quantity) # ""
                       THEN Respond(q, 400, ValidateQuantity(quantity), NoData)
                       ELSE [q EXCEPT !.pc = "get"]]
    /\ UNCHANGED store

\* db.get(getOrderQuery, [id], ...)
UpdateOrderGet(r) ==
    /\ req[r].op = "updateOrder" /\ req[r].pc = "get"
    /\ LET rows == SelectOrderJoin(req[r].id) IN
         req' = [req EXCEPT ![r] =
                   IF rows = {} THEN Respond(@, 404, "Order not found", NoData)
                   ELSE [@ EXCEPT !.pc = "run", !.row = << CHOOSE o \in rows : TRUE >>]]
    /\ UNCHANGED store

\* UpdateOrderRun that also binds the product_id of the request body.
UpdateOrderRunRebinds(r) ==
    /\ req[r].op = "updateOrder" /\ req[r].pc = "run"
    /\ LET order == req[r].row[1]
           new_total_price == TotalPrice(order.unit_price, req[r].quantity)
       IN  /\ orders' = { IF o.order_id = req[r].id /\ req[r].product_id.t = "number"
                          THEN [o EXCEPT !.product_id = req[r].product_id.n]
                          ELSE o :
                            o \in UpdatedOrders(req[r].id, req[r].quantity, new_total_price) }
           /\ req' = [req EXCEPT ![r] =
                       Respond(@, 200, "Order updated successfully",
                               << [order_id |-> req[r].id, product_id |-> order.product_id,
                                   quantity |-> ParseInt(req[r].quantity),
                                   total_price |-> ToFixed2(new_total_price)] >>)]
    /\ UNCHANGED <<products, seqProducts, seqOrders>>

\* db.run(updateQuery, [quantity, new_total_price, id], ...)
UpdateOrderRun(r) ==
    /\ req[r].op = "updateOrder" /\ req[r].pc = "run"
    /\ LET order == req[r].row[1]
           new_total_price == TotalPrice(order.unit_price, req[r].quantity)
       IN  /\ orders' = UpdatedOrders(req[r].id, req[r].quantity, new_total_price)
           /\ req' = [req EXCEPT ![r] =
                       Respond(@, 200, "Order updated successfully",
                               << [order_id |-> req[r].id, product_id |-> order.product_id,
                                   quantity |-> ParseInt(req[r].quantity),
                                   total_price |-> ToFixed2(new_total_price)] >>)]
    /\ UNCHANGED <<products, seqProducts, seqOrders>>

\* DELETE /orders/:id
DeleteOrderHandler(r, ids) ==
    /\ Free(r)
    /\ \E id \in ids :
         req' = [req EXCEPT ![r] = [Idle EXCEPT !.op = "deleteOrder", !.pc = "run", !.id = id]]
    /\ UNCHANGED store

\* DeleteOrderRun without its WHERE clause: every order goes.
DeleteOrderRunAllRows(r) ==
    /\ req[r].op = "deleteOrder" /\ req[r].pc = "run"
    /\ LET changes == Cardinality({ o \in orders : o.order_id = req[r].id }) IN
         req' = [req EXCEPT ![r] =
                   IF changes = 0 THEN Respond(@, 404, "Order not found", NoData)
                   ELSE Respond(@, 200, "Order deleted successfully", NoData)]
    /\ orders' = {}
    /\ UNCHANGED <<products, seqProducts, seqOrders>>

\* db.run('DELETE FROM Orders WHERE order_id = ?', [id], ...)
DeleteOrderRun(r) ==
    /\ req[r].op = "deleteOrder" /\ req[r].pc = "run"
    /\ LET changes == Cardinality({ o \in orders : o.order_id = req[r].id }) IN
         req' = [req EXCEPT ![r] =
                   IF changes = 0 THEN Respond(@, 404, "Order not found", NoData)
                   ELSE Respond(@, 200, "Order deleted successfully", NoData)]
    /\ orders' = { o \in orders : o.order_id # req[r].id }
    /\ UNCHANGED <<products, seqProducts, seqOrders>>

\* DELETE /orders
DeleteAllOrdersHandler(r) ==
    /\ Free(r)
    /\ req' = [req EXCEPT ![r] = [Idle EXCEPT !.op = "deleteAllOrders", !.pc = "run"]]
    /\ UNCHANGED store

\* DeleteAllOrdersRun that counts the rows left, not the rows removed.
DeleteAllOrdersRunCountsAfter(r) ==
    /\ req[r].op = "deleteAllOrders" /\ req[r].pc = "run"
    /\ req' = [req EXCEPT ![r] =
                 Respond(@, 200, "All orders deleted successfully",
                         << [changes |-> 0] >>)]
    /\ orders' = {}
    /\ UNCHANGED <<products, seqProducts, seqOrders>>

\* db.run('DELETE FROM Orders', ...): this.changes is the number of rows removed,
\* reported in the message "(N records removed)".
DeleteAllOrdersRun(r) ==
    /\ req[r].op = "deleteAllOrders" /\ req[r].pc = "run"
    /\ req' = [req EXCEPT ![r] =
                 Respond(@, 200, "All orders deleted successfully",
                         << [changes |-> Cardinality(orders)] >>)]
    /\ orders' = {}
    /\ UNCHANGED <<products, seqProducts, seqOrders>>

-----------------------------------------------------------------------------
(* The read routes: GET /products, GET /orders and routes/reports.js.  Each *)
(* is one SELECT handed to the store (db.all / db.get) and a callback that *)
(* shapes the rows into the response.                                      *)

\* SQL NULL
Null == [t |-> "null", n |-> 0, s |-> ""]

RECURSIVE SumField(_, _)
SumField(S, field) ==
    IF S = {} THEN 0
    ELSE LET x == CHOOSE y \in S : TRUE IN x[field] + SumField(S \ {x}, field)

\* SqlSum that counts the rows instead of adding the column up.
SqlSumCounts(S, field) == IF S = {} THEN Null ELSE Num(Cardinality(S))

\* SUM(field) over the rows S: NULL when there is no row.
SqlSum(S, field) == IF S = {} THEN Null ELSE Num(SumField(S, field))

\* MIN(field) and MAX(field): NULL when there is no row.
SqlMin(S, field) ==
    IF S = {} THEN Null ELSE Num(CHOOSE v \in { x[field] : x \in S } :
                                   \A x \in S : v <= x[field])
SqlMax(S, field) == IF S = {} THEN Null ELSE Num(SetMax({ x[field] : x \in S }))

\* COALESCE(v, 0)
Coalesce0(v) == IF v.t = "null" THEN 0 ELSE v.n

\* v || 0 and v ? v : 0 for a number or NULL
OrZero(v) == IF v.t = "null" \/ v.n = 0 THEN 0 ELSE v.n

\* The rows S in the order ORDER BY gives them: the row that i - 1 rows come before is
\* the i-th.  before is the set of pairs <<a, b>> with a sorted before b, a strict
\* total order on S.
SortRows(S, before) ==
    LET rows == S
        pairs == before
    IN  [i \in 1..Cardinality(rows) |->
           CHOOSE x \in rows : Cardinality({ y \in rows : <<y, x>> \in pairs }) = i - 1]

\* LIMIT n
Limit(rows, n) == LET all == rows IN SubSeq(all, 1, IF Len(all) < n THEN Len(all) ELSE n)

\* FROM Products p LEFT JOIN Orders o ON p.id = o.product_id GROUP BY p.id, p.name,
\* p.price: one group per Product, holding the Orders that reference it (none: one
\* row of NULLs, which SUM and COUNT skip).
GroupOrders(p) == { o \in orders : o.product_id = p.id }

\* ORDER BY id DESC and ORDER BY o.order_id DESC
IdDesc(a, b) == a.id > b.id
OrderIdDesc(a, b) == a.order_id > b.order_id

\* SELECT * FROM Products ORDER BY id DESC
SelectProducts ==
    SortRows(products, { ab \in products \X products : IdDesc(ab[1], ab[2]) })

\* SELECT o.order_id, o.product_id, p.name as product_name, o.quantity, o.total_price,
\* o.order_date FROM Orders o JOIN Products p ON o.product_id = p.id
\* ORDER BY o.order_id DESC
SelectOrders ==
    LET joined == { [order_id |-> o.order_id, product_id |-> o.product_id,
                     product_name |-> p.name, quantity |-> o.quantity,
                     total_price |-> o.total_price, order_date |-> o.order_date] :
                      <<o, p>> \in { op \in orders \X products :
                                       op[1].product_id = op[2].id } }
    IN  SortRows(joined, { ab \in joined \X joined : OrderIdDesc(ab[1], ab[2]) })

\* LIMIT 5
TopLimit == 5

\* TopSellersBefore that ranks by revenue.
TopSellersBeforeRevenue(a, b) ==
    \/ a.total_revenue.n > b.total_revenue.n
    \/ a.total_revenue.n = b.total_revenue.n /\ a.id < b.id

\* ORDER BY total_quantity_sold DESC.  SQL leaves the order of rows with equal totals
\* open; the groups reach the sorter in id order and leave it in that order.
TopSellersBefore(a, b) ==
    \/ a.total_quantity_sold.n > b.total_quantity_sold.n
    \/ a.total_quantity_sold.n = b.total_quantity_sold.n /\ a.id < b.id

\* SELECT p.id, p.name, p.price, SUM(o.quantity), COUNT(o.order_id), SUM(o.total_price)
\* ... GROUP BY p.id, p.name, p.price HAVING total_quantity_sold > 0: the groups whose
\* sum is NULL (no order) go, as do those whose sum is not positive.
TopSellersGroups ==
    { g \in { [id |-> p.id, name |-> p.name, price |-> p.price,
               total_quantity_sold |-> SqlSum(GroupOrders(p), "quantity"),
               number_of_orders |-> Cardinality(GroupOrders(p)),
               total_revenue |-> SqlSum(GroupOrders(p), "total_price")] :
                p \in products } :
        g.total_quantity_sold.t = "number" /\ g.total_quantity_sold.n > 0 }

\* TopSellersQuery without its LIMIT.
TopSellersQueryUnlimited ==
    LET groups == TopSellersGroups IN
    SortRows(groups, { ab \in groups \X groups : TopSellersBefore(ab[1], ab[2]) })

\* The top-sellers query: ... ORDER BY total_quantity_sold DESC LIMIT 5
TopSellersQuery ==
    LET groups == TopSellersGroups IN
    Limit(SortRows(groups, { ab \in groups \X groups : TopSellersBefore(ab[1], ab[2]) }),
          TopLimit)

\* rows.map(row => ({...})) of top-sellers
TopSellersData ==
    LET rows == TopSellersQuery IN
    [i \in DOMAIN rows |->
       LET row == rows[i] IN
         [id |-> row.id, name |-> row.name, price |-> ToFixed2(row.price),
          total_quantity_sold |-> row.total_quantity_sold.n,
          number_of_orders |-> row.number_of_orders,
          total_revenue |-> ToFixed2(row.total_revenue.n)]]

\* ORDER BY total_sold DESC, rows with equal totals in id order
ProductPerformanceBefore(a, b) ==
    \/ a.total_sold > b.total_sold
    \/ a.total_sold = b.total_sold /\ a.id < b.id

\* The product-performance query: no HAVING, no LIMIT, COALESCE(.., 0) on the sums.
ProductPerformanceQuery ==
    LET groups == { [id |-> p.id, name |-> p.name, price |-> p.price,
                     total_sold |-> Coalesce0(SqlSum(GroupOrders(p), "quantity")),
                     order_count |-> Cardinality(GroupOrders(p)),
                     revenue |-> Coalesce0(SqlSum(GroupOrders(p), "total_price"))] :
                      p \in products }
    IN  SortRows(groups,
                 { ab \in groups \X groups : ProductPerformanceBefore(ab[1], ab[2]) })

\* rows.map(row => ({...})) of product-performance
ProductPerformanceData ==
    LET rows == ProductPerformanceQuery IN
    [i \in DOMAIN rows |->
       LET row == rows[i] IN
         [id |-> row.id, name |-> row.name, price |-> ToFixed2(row.price),
          total_sold |-> row.total_sold, order_count |-> row.order_count,
          revenue |-> ToFixed2(row.revenue)]]

\* SqlAvg per item sold: the revenue over the sum of the quantities.
SqlAvgPerItem(S, field) ==
    IF S = {} THEN Null
    ELSE Num((200 * SumField(S, field) + SumField(S, "quantity"))
               \div (2 * SumField(S, "quantity")))

\* parseFloat(AVG(field).toFixed(2)), in hundredths: the mean of the column over the
\* rows S rounded to 2 decimals, NULL when there is no row.
SqlAvg(S, field) ==
    IF S = {} THEN Null
    ELSE Num((200 * SumField(S, field) + Cardinality(S)) \div (2 * Cardinality(S)))

\* The sales-summary query and the data object built from its row.
\* average_order_value is in hundredths, every other amount in units.
SalesSummaryData ==
    [total_orders |-> Cardinality({ o.order_id : o \in orders }),
     total_items_sold |-> OrZero(SqlSum(orders, "quantity")),
     total_revenue |-> ToFixed2(OrZero(SqlSum(orders, "total_price"))),
     average_order_value |-> OrZero(SqlAvg(orders, "total_price")),
     first_order_date |-> SqlMin(orders, "order_date"),
     last_order_date |-> SqlMax(orders, "order_date")]

\* A read route without parameters: the handler queues its SELECT.
ReadHandler(r, op) ==
    /\ Free(r)
    /\ req' = [req EXCEPT ![r] = [Idle EXCEPT !.op = op, !.pc = "get"]]
    /\ UNCHANGED store

\* ReadGet that empties the ledger it has just read.
ReadGetConsumes(r, op, message, data) ==
    /\ req[r].op = op /\ req[r].pc = "get"
    /\ req' = [req EXCEPT ![r] = Respond(@, 200, message, data)]
    /\ orders' = {}
    /\ UNCHANGED <<products, seqProducts, seqOrders>>

\* The callback of a read route: res.json({success: true, data: ...})
ReadGet(r, op, message, data) ==
    /\ req[r].op = op /\ req[r].pc = "get"
    /\ req' = [req EXCEPT ![r] = Respond(@, 200, message, data)]
    /\ UNCHANGED store

\* GET /products
ListProductsHandler(r) == ReadHandler(r, "listProducts")
ListProductsGet(r) == ReadGet(r, "listProducts", "", SelectProducts)

\* GET /orders
ListOrdersHandler(r) == ReadHandler(r, "listOrders")
ListOrdersGet(r) == ReadGet(r, "listOrders", "", SelectOrders)

\* GET /report/top-sellers
TopSellersHandler(r) == ReadHandler(r, "topSellers")
TopSellersGet(r) ==
    ReadGet(r, "topSellers", "Top 5 best-selling products retrieved successfully",
            TopSellersData)

\* GET /report/sales-summary
SalesSummaryHandler(r) == ReadHandler(r, "salesSummary")
SalesSummaryGet(r) ==
    ReadGet(r, "salesSummary", "Sales summary retrieved successfully",
            << SalesSummaryData >>)

\* GET /report/product-performance
ProductPerformanceHandler(r) == ReadHandler(r, "productPerformance")
ProductPerformanceGet(r) ==
    ReadGet(r, "productPerformance", "Product performance data retrieved successfully",
            ProductPerformanceData)

-----------------------------------------------------------------------------
(* Specifications.                                                         *)

\* The store executes the statement request r has queued and calls back.
Callback(r) ==
    \/ GetProductGet(r)
    \/ CreateProductRun(r)
    \/ UpdateProductRun(r)
    \/ DeleteProductRun(r)
    \/ CreateOrderGet(r)
    \/ CreateOrderRun(r)
    \/ GetOrderGet(r)
    \/ UpdateOrderGet(r)
    \/ UpdateOrderRun(r)
    \/ DeleteOrderRun(r)
    \/ DeleteAllOrdersRun(r)

\* A request with a well-formed body arrives at slot r and its handler runs up to
\* its first store access.
ValidHandler(r) ==
    \/ GetProductHandler(r, ProductIdParams)
    \/ CreateProductHandler(r, ValidNames, ValidPrices)
    \/ UpdateProductHandler(r, ProductIdParams, ValidNames, ValidPrices)
    \/ DeleteProductHandler(r, ProductIdParams)
    \/ CreateOrderHandler(r, ValidProductIds, ValidQuantities)
    \/ GetOrderHandler(r, OrderIdParams)
    \/ UpdateOrderHandler(r, OrderIdParams, {Undef}, ValidQuantities)
    \/ DeleteOrderHandler(r, OrderIdParams)
    \/ DeleteAllOrdersHandler(r)

\* One client, one request at a time, well-formed bodies: every route of the catalog
\* and the ledger, with ids that exist and ids that do not.
NextSeq == ValidHandler(1) \/ Callback(1)

SpecSeq == Init /\ [][NextSeq]_vars

\* One client, one request at a time, any body: the routes of the catalog.
NextCatalog ==
    \/ GetProductHandler(1, ProductIdParams)
    \/ CreateProductHandler(1, NameArgs, PriceArgs)
    \/ UpdateProductHandler(1, ProductIdParams, NameArgs, PriceArgs)
    \/ DeleteProductHandler(1, ProductIdParams)
    \/ GetProductGet(1)
    \/ CreateProductRun(1)
    \/ UpdateProductRun(1)
    \/ DeleteProductRun(1)

SpecCatalog == Init /\ [][NextCatalog]_vars

\* Up to MaxReq clients creating products and orders at the same time.
NextCreate ==
    \E r \in Reqs :
        \/ CreateProductHandler(r, ValidNames, ValidPrices)
        \/ CreateOrderHandler(r, ValidProductIds, ValidQuantities)
        \/ CreateProductRun(r)
        \/ CreateOrderGet(r)
        \/ CreateOrderRun(r)

SpecCreate == Init /\ [][NextCreate]_vars

\* The read routes without parameters: the request arrives, or the store answers it.
ReadRoute(r) ==
    \/ ListProductsHandler(r)
    \/ ListOrdersHandler(r)
    \/ TopSellersHandler(r)
    \/ SalesSummaryHandler(r)
    \/ ProductPerformanceHandler(r)
    \/ ListProductsGet(r)
    \/ ListOrdersGet(r)
    \/ TopSellersGet(r)
    \/ SalesSummaryGet(r)
    \/ ProductPerformanceGet(r)

\* One client, one request at a time, any body: createOrder and updateOrder.
NextLedger ==
    \/ CreateOrderHandler(1, ProductIdArgs, QuantityArgs)
    \/ UpdateOrderHandler(1, OrderIdParams, ProductIdArgs, QuantityArgs)
    \/ CreateOrderGet(1)
    \/ CreateOrderRun(1)
    \/ UpdateOrderGet(1)
    \/ UpdateOrderRun(1)

SpecLedger == Init /\ [][NextLedger]_vars

\* The reports are queries over the store, run here on a family of ledgers the routes
\* build: each of the first ReportProducts products of the catalog (one more than the
\* top-sellers limit) has no order or one order of a quantity up to MaxSold, created
\* in catalog order, possibly followed by an order of one more unit of the first.
ReportProducts == TopLimit + 1

LedgerOf(sold, again) ==
    LET ordered == { i \in DOMAIN sold : sold[i] > 0 }
        order_id(i) == Cardinality({ j \in ordered : j <= i })
        price(i) == sampleProducts[i][2]
        last == Cardinality(ordered) + 1
    IN  { InsertedOrder(order_id(i), Num(i), Num(sold[i]),
                        TotalPrice(price(i), Num(sold[i])), Now(order_id(i))) :
            i \in ordered }
        \cup (IF again /\ 1 \in ordered
               THEN {InsertedOrder(last, Num(1), Num(1), TotalPrice(price(1), Num(1)),
                                   Now(last))}
               ELSE {})

InitReport ==
    /\ products = seedProducts
    /\ seqProducts = Len(sampleProducts)
    /\ \E sold \in [1..ReportProducts -> 0..MaxSold], again \in BOOLEAN :
         orders = LedgerOf(sold, again)
    /\ seqOrders = Cardinality(orders)
    /\ req = [r \in Reqs |-> Idle]

\* One client reading: every read route, and deleteProduct, which leaves the orders of
\* the product it deletes in the ledger.
NextReport ==
    \/ GetProductHandler(1, ProductIdParams)
    \/ GetOrderHandler(1, OrderIdParams)
    \/ DeleteProductHandler(1, ProductIdParams)
    \/ GetProductGet(1)
    \/ GetOrderGet(1)
    \/ DeleteProductRun(1)
    \/ ReadRoute(1)

SpecReport == InitReport /\ [][NextReport]_vars

\* Up to MaxReq clients pricing and ordering the same product at the same time:
\* orders of product 1 are created, order 1 is updated, product 1 is renamed and
\* repriced.
NextRacePrice ==
    \E r \in Reqs :
        \/ CreateOrderHandler(r, {Num(1)}, {Num(1)})
        \/ UpdateOrderHandler(r, {1}, {Undef}, {Num(2), Num(3)})
        \/ UpdateProductHandler(r, {1}, {Str("Widget")}, {Num(100)})
        \/ UpdateProductHandler(r, {1}, {Str("Gadget")}, {Num(200)})
        \/ CreateOrderGet(r)
        \/ CreateOrderRun(r)
        \/ UpdateOrderGet(r)
        \/ UpdateOrderRun(r)
        \/ UpdateProductRun(r)

SpecRacePrice == Init /\ [][NextRacePrice]_vars

\* Up to MaxReq clients ordering two products while both are repriced and the first
\* is deleted, with a store whose statements may fail.
NextRaceTwo ==
    \E r \in Reqs :
        \/ CreateOrderHandler(r, {Num(1), Num(2)}, {Num(2)})
        \/ UpdateOrderHandler(r, OrderIdParams, {Undef}, {Num(3)})
        \/ UpdateProductHandler(r, {1}, {Str("Widget")}, {Num(100)})
        \/ UpdateProductHandler(r, {2}, {Str("Gadget")}, {Num(200)})
        \/ DeleteProductHandler(r, {1})
        \/ CreateOrderGet(r)
        \/ CreateOrderRun(r)
        \/ UpdateOrderGet(r)
        \/ UpdateOrderRun(r)
        \/ UpdateProductRun(r)
        \/ DeleteProductRun(r)
        \/ StoreError(r)

SpecRaceTwo == Init /\ [][NextRaceTwo]_vars

\* Up to MaxReq clients ordering and deleting at the same time: orders of product 1
\* are created, order 1 is updated and deleted, the ledger is cleared, product 1 is
\* deleted, and any statement may fail.
RaceDeleteStep(r) ==
    \/ CreateOrderHandler(r, {Num(1)}, {Num(1)})
    \/ UpdateOrderHandler(r, {1}, {Undef}, {Num(2)})
    \/ DeleteOrderHandler(r, {1})
    \/ DeleteAllOrdersHandler(r)
    \/ DeleteProductHandler(r, {1})
    \/ CreateOrderGet(r)
    \/ CreateOrderRun(r)
    \/ UpdateOrderGet(r)
    \/ UpdateOrderRun(r)
    \/ DeleteOrderRun(r)
    \/ DeleteAllOrdersRun(r)
    \/ DeleteProductRun(r)
    \/ StoreError(r)

NextRaceDelete == \E r \in Reqs : RaceDeleteStep(r)

SpecRaceDelete == Init /\ [][NextRaceDelete]_vars

\* The store answers every access: a statement that is queued is executed, or fails,
\* and its callback runs.
StoreAnswers(r) == Callback(r) \/ StoreError(r)

SpecRaceFair ==
    Init /\ [][NextRaceDelete]_vars /\ \A r \in Reqs : WF_vars(StoreAnswers(r))

\* Every route, any body, up to MaxReq requests in flight.
Handler(r) ==
    \/ GetProductHandler(r, ProductIdParams)
    \/ CreateProductHandler(r, NameArgs, PriceArgs)
    \/ UpdateProductHandler(r, ProductIdParams, NameArgs, PriceArgs)
    \/ DeleteProductHandler(r, ProductIdParams)
    \/ CreateOrderHandler(r, ProductIdArgs, QuantityArgs)
    \/ GetOrderHandler(r, OrderIdParams)
    \/ UpdateOrderHandler(r, OrderIdParams, ProductIdArgs, QuantityArgs)
    \/ DeleteOrderHandler(r, OrderIdParams)
    \/ DeleteAllOrdersHandler(r)

\* One client, one request at a time, and a store whose statements may fail: the
\* requests of SpecSeq, and one with a body that fails validation for each route that
\* has a body.
NextFaulty ==
    \/ ValidHandler(1)
    \/ CreateProductHandler(1, {Undef}, ValidPrices)
    \/ UpdateProductHandler(1, ProductIdParams, ValidNames, {Num(0)})
    \/ CreateOrderHandler(1, ValidProductIds, {Num(-1)})
    \/ UpdateOrderHandler(1, OrderIdParams, {Undef}, {Str("abc")})
    \/ Callback(1)
    \/ StoreError(1)

SpecFaulty == Init /\ [][NextFaulty]_vars

\* One client, one request at a time: the four routes that have a body, with bodies
\* that are well formed, that miss a field, that are out of range, and a price that
\* is not a number, for ids that exist and ids that do not.
BodyNames == ValidNames \cup {Undef}
BodyPrices == ValidPrices \cup {Num(0), True}
BodyQuantities == {Num(1), Num(0), Undef}

NextBodies ==
    \/ CreateProductHandler(1, BodyNames, BodyPrices)
    \/ UpdateProductHandler(1, ProductIdParams, BodyNames, BodyPrices)
    \/ CreateOrderHandler(1, ProductIdArgs, BodyQuantities)
    \/ UpdateOrderHandler(1, OrderIdParams, {Undef}, BodyQuantities)
    \/ CreateProductRun(1)
    \/ UpdateProductRun(1)
    \/ CreateOrderGet(1)
    \/ CreateOrderRun(1)
    \/ UpdateOrderGet(1)
    \/ UpdateOrderRun(1)

SpecBodies == Init /\ [][NextBodies]_vars

Next == \E r \in Reqs : Handler(r) \/ Callback(r) \/ ReadRoute(r)

Spec == Init /\ [][Next]_vars

-----------------------------------------------------------------------------
(* Properties.                                                             *)

\* The Product rows with the id a request body names, read from the table itself.
ProductRows(v) == { p \in products : v.t = "number" /\ p.id = v.n }

\* Request r has just been answered: this step is the one that sends its response.
Answers(r) == ~Free(r) /\ req'[r].pc = "done"

\* C1: run alone, createOrder(p.id, q) for an existing Product p and q > 0 passes
\* validation and the product lookup, answers 201, inserts exactly one Order row with
\* product_id = p.id, quantity = q and total_price = p.price * q for the price stored
\* at that moment, and returns that total_price.
C1_CreateOrderTotal ==
    [][\A r \in Reqs :
         LET q == req[r]
             n == req'[r]
         IN  /\ (Free(r) /\ n.op = "createOrder" /\ n.product_id.t = "number"
                   /\ n.quantity.t = "number" /\ n.quantity.n > 0)
                  => n.pc = "get"
             /\ (q.op = "createOrder" /\ q.pc = "get" /\ n # q /\ ProductRows(q.product_id) # {})
                  => (n.pc = "run" /\ orders' = orders)
             /\ (q.op = "createOrder" /\ q.pc = "run" /\ n # q)
                  => \A p \in ProductRows(q.product_id) :
                       /\ n.pc = "done" /\ n.status = 201
                       /\ \E o \in orders' \ orders :
                            /\ orders' = orders \cup {o}
                            /\ o.product_id = p.id
                            /\ o.quantity = q.quantity.n
                            /\ o.total_price = p.price * q.quantity.n
                            /\ n.data[1].order_id = o.order_id
                            /\ n.data[1].total_price = Num(o.total_price)
    ]_vars

\* C1 witness: an order of quantity 2 answered 201 for a product whose price was
\* changed to 100 beforehand, stored with total_price 200.
C1_Witness ==
    \E r \in Reqs :
        /\ req[r].op = "createOrder" /\ req[r].pc = "done" /\ req[r].status = 201
        /\ req[r].quantity = Num(2)
        /\ \E o \in orders, p \in products :
             /\ o.order_id = req[r].data[1].order_id
             /\ p.id = o.product_id /\ p.id = 1 /\ p.price = 100
             /\ o.total_price = 200

\* C2 (as amended): for every existing order whose Product is in the catalog and every
\* q2 > 0, updateOrder(order_id, q2) run alone answers 200, and getOrder(order_id) on
\* the state it leaves shows quantity = q2 and total_price = (the Product's catalog
\* price at the update) * q2, whatever the stored quantity and total_price were.
C2_UpdateOrderRecomputes ==
    [][\A r \in Reqs :
         LET q == req[r]
             n == req'[r]
         IN  (q.op = "updateOrder" /\ ~Free(r) /\ n # q)
               => \A o \in orders : \A p \in products :
                    (o.order_id = q.id /\ p.id = o.product_id)
                      => \/ q.pc = "get" /\ n.pc = "run" /\ store' = store
                         \/ /\ q.pc = "run" /\ n.pc = "done" /\ n.status = 200
                            /\ \E row \in SelectOrderJoin(q.id)' :
                                 /\ row.quantity = q.quantity.n
                                 /\ row.total_price = p.price * q.quantity.n
    ]_vars

\* C2 witness: an order on product 1, whose price is now 100 and no longer the seeded
\* one, updated to quantity 2 and stored with total_price 200.
C2_Witness ==
    \E r \in Reqs :
        /\ req[r].op = "updateOrder" /\ req[r].pc = "done" /\ req[r].status = 200
        /\ req[r].quantity = Num(2)
        /\ \E o \in orders, p \in products :
             /\ o.order_id = req[r].id /\ p.id = o.product_id
             /\ p.id = 1 /\ p.price = 100
             /\ o.quantity = 2 /\ o.total_price = 200

\* C2 (as claimed): for every existing order row, an updateOrder(order_id, q2) that
\* has been answered leaves getOrder(order_id) showing quantity = q2.
C2_Original ==
    [][\A r \in Reqs :
         (req[r].op = "updateOrder" /\ Answers(r)
            /\ \E o \in orders : o.order_id = req[r].id)
           => \E row \in SelectOrderJoin(req[r].id)' : row.quantity = req[r].quantity.n
    ]_vars

\* C3: a successful updateProduct(id, name, price) leaves the id set, the id and
\* created_at of the updated row, every other Product row, every Order row and both
\* id counters unchanged.
C3_UpdateProductFrame ==
    [][\A r \in Reqs :
         (req[r].op = "updateProduct" /\ Answers(r) /\ req'[r].status = 200)
           => /\ orders' = orders
              /\ seqProducts' = seqProducts /\ seqOrders' = seqOrders
              /\ \A p \in products : p.id # req[r].id => p \in products'
              /\ \A n \in products' : n.id # req[r].id => n \in products
              /\ \A p \in products : p.id = req[r].id =>
                   \E n \in products' : n.id = p.id /\ n.created_at = p.created_at
              /\ Cardinality(products') = Cardinality(products)
    ]_vars

\* C3 witness: updateProduct answered 200 while an order that references the product
\* keeps a total_price computed from the earlier price.
C3_Witness ==
    \E r \in Reqs :
        /\ req[r].op = "updateProduct" /\ req[r].pc = "done" /\ req[r].status = 200
        /\ \E o \in orders, p \in products :
             /\ p.id = req[r].id /\ o.product_id = p.id
             /\ o.total_price # p.price * o.quantity

\* C4: every Product row has price > 0, whatever createProduct, updateProduct and
\* deleteProduct requests were made.
C4_PricePositive == \A p \in products : p.price > 0

\* C5: an id is never assigned twice.  Each counter is at least every id in its table
\* and never decreases, whatever is deleted; a successful createProduct (createOrder)
\* returns the id of the row it inserted, and that id is greater than the counter was,
\* hence greater than every id assigned before.
C5_IdsNeverReused ==
    [][/\ \A p \in products : p.id <= seqProducts
       /\ \A o \in orders : o.order_id <= seqOrders
       /\ seqProducts' >= seqProducts
       /\ seqOrders' >= seqOrders
       /\ \A r \in Reqs :
            /\ (req[r].op = "createProduct" /\ Answers(r) /\ req'[r].status = 201)
                 => /\ req'[r].data[1].id > seqProducts
                    /\ seqProducts' = req'[r].data[1].id
                    /\ \E p \in products' \ products : p.id = req'[r].data[1].id
            /\ (req[r].op = "createOrder" /\ Answers(r) /\ req'[r].status = 201)
                 => /\ req'[r].data[1].order_id > seqOrders
                    /\ seqOrders' = req'[r].data[1].order_id
                    /\ \E o \in orders' \ orders : o.order_id = req'[r].data[1].order_id
    ]_vars

\* C5 witness: a second order was created after the first was deleted and a second
\* product after the first created one was deleted: ids 2 and 10, not 1 and 9 again.
C5_Witness ==
    \E r \in Reqs :
        /\ req[r].op = "createOrder" /\ req[r].pc = "done" /\ req[r].status = 201
        /\ req[r].data[1].order_id = 2
        /\ \A o \in orders : o.order_id # 1
        /\ \A p \in products : p.id # FirstNewId
        /\ \E p \in products : p.id = FirstNewId + 1

\* Request r has been answered that it created a row.
Created(r, op) == req[r].op = op /\ req[r].pc = "done" /\ req[r].status = 201

\* C6: with several createProduct (createOrder) requests in flight, under every
\* interleaving, the ids returned by those that succeed are pairwise distinct, and
\* each is the id of exactly one row, which holds what that request sent.
C6_ConcurrentCreatesDistinctIds ==
    \A r \in Reqs :
        /\ Created(r, "createProduct") =>
             /\ \E p \in products :
                  /\ p.id = req[r].data[1].id
                  /\ p.name = req[r].name.s /\ p.price = req[r].price.n
                  /\ \A p2 \in products : p2.id = p.id => p2 = p
             /\ \A r2 \in Reqs \ {r} :
                  Created(r2, "createProduct") => req[r2].data[1].id # req[r].data[1].id
        /\ Created(r, "createOrder") =>
             /\ \E o \in orders :
                  /\ o.order_id = req[r].data[1].order_id
                  /\ o.product_id = req[r].product_id.n /\ o.quantity = req[r].quantity.n
                  /\ o.order_date = req[r].data[1].order_date
                  /\ \A o2 \in orders : o2.order_id = o.order_id => o2 = o
             /\ \A r2 \in Reqs \ {r} :
                  Created(r2, "createOrder")
                    => req[r2].data[1].order_id # req[r].data[1].order_id

\* C6 witness: two createProduct requests hold their answers, the first slot's
\* request having been given the later id.
C6_Witness ==
    /\ Created(1, "createProduct") /\ Created(2, "createProduct")
    /\ req[1].data[1].id = FirstNewId + 1
    /\ req[2].data[1].id = FirstNewId

\* C7: createOrder requests running concurrently for a Product that exists and that no
\* request mutates all answer 201; each has its own row, with its quantity and
\* total_price = price * quantity, and the ledger holds exactly one row per insert.
C7_ConcurrentOrdersConsistent ==
    /\ Cardinality(orders) = seqOrders
    /\ Cardinality({ o.order_id : o \in orders }) = seqOrders
    /\ \A r \in Reqs :
         (req[r].op = "createOrder" /\ req[r].pc = "done") =>
           \A p \in products :
             (p.id = req[r].product_id.n /\ p \in seedProducts) =>
               /\ req[r].status = 201
               /\ \E o \in orders :
                    /\ o.order_id = req[r].data[1].order_id
                    /\ o.product_id = p.id
                    /\ o.quantity = req[r].quantity.n
                    /\ o.total_price = p.price * req[r].quantity.n
                    /\ req[r].data[1].total_price = Num(o.total_price)

\* C7 witness: two createOrder requests for product 1, quantities 1 and 2, both
\* answered, and the ledger holds their two rows.
C7_Witness ==
    /\ Created(1, "createOrder") /\ Created(2, "createOrder")
    /\ req[1].product_id = Num(1) /\ req[2].product_id = Num(1)
    /\ req[1].quantity = Num(2) /\ req[2].quantity = Num(1)
    /\ Cardinality(orders) = 2

\* The body of a createProduct or updateProduct that C8 says is rejected: the name
\* empty or missing, or the price missing, not a number, or <= 0.
InvalidProductBody(name, price) ==
    \/ name.t = "undefined" \/ name = Str("")
    \/ price.t \in {"undefined", "boolean", "NaN"}
    \/ price.t = "string" /\ StringToNumber(price.s).t = "NaN"
    \/ price.t = "number" /\ price.n <= 0

\* C8: a createProduct or updateProduct with an invalid body never changes the
\* Products table or its counter, and is answered 400.
C8_InvalidBodyRejected ==
    [][\A r \in Reqs :
         LET n == req'[r] IN
         (/\ n.op \in {"createProduct", "updateProduct"} /\ n # req[r]
          /\ InvalidProductBody(n.name, n.price))
           => /\ products' = products /\ seqProducts' = seqProducts
              /\ n.pc = "done" => n.status = 400
    ]_vars

\* C9: after createProduct(name, price) with a non-empty name and a price > 0 has been
\* answered 201, and after updateProduct has been answered 200, getProduct of that id
\* returns the name and the price of the request.
C9_ProductRoundTrip ==
    \A r \in Reqs :
        (/\ req[r].pc = "done"
         /\ \/ req[r].op = "createProduct" /\ req[r].status = 201
            \/ req[r].op = "updateProduct" /\ req[r].status = 200)
          => \E p \in SelectProduct(Num(req[r].data[1].id)) :
               /\ p.name = req[r].name.s
               /\ p.price = ToNumber(req[r].price).n

\* C10: createOrder with a valid quantity and a product_id that matches no Product is
\* answered 404 "Product not found"; no Order row is inserted and the order_id counter
\* stays where it was.
C10_CreateOrderProductNotFound ==
    [][\A r \in Reqs :
         (/\ req[r].op = "createOrder" /\ req[r].pc = "get" /\ req'[r] # req[r]
          /\ \A p \in products : p.id # req[r].product_id.n)
           => /\ req'[r].pc = "done" /\ req'[r].status = 404
              /\ req'[r].message = "Product not found"
              /\ orders' = orders
              /\ seqOrders' = seqOrders
    ]_vars

\* C10 witness: a createOrder answered 404 while the ledger holds an order and the
\* product it names has been deleted.
C10_Witness ==
    \E r \in Reqs :
        /\ req[r].op = "createOrder" /\ req[r].pc = "done" /\ req[r].status = 404
        /\ req[r].quantity = Num(2)
        /\ orders # {}
        /\ seqProducts >= req[r].product_id.n
        /\ \A p \in products : p.id # req[r].product_id.n

\* A quantity that is present in the body but is not a number or is <= 0.
QuantityOutOfRange(quantity) ==
    \/ quantity.t = "string" /\ StringToNumber(quantity.s).t = "NaN"
    \/ quantity.t = "number" /\ quantity.n <= 0

\* C11: createOrder (with a product_id present) and updateOrder with a quantity that is
\* present but not a number or <= 0 are answered 400 "Quantity must be greater than
\* 0"; "Product ID and quantity are required" is answered only when product_id or
\* quantity is missing from the body.
C11_QuantityRejected ==
    [][\A r \in Reqs :
         LET n == req'[r] IN
         (Free(r) /\ n # req[r] /\ n.op \in {"createOrder", "updateOrder"})
           => /\ (/\ QuantityOutOfRange(n.quantity)
                  /\ n.op = "createOrder" => n.product_id.t # "undefined")
                   => /\ n.pc = "done" /\ n.status = 400
                      /\ n.message = "Quantity must be greater than 0"
              /\ n.message = "Product ID and quantity are required"
                   => (n.product_id.t = "undefined" \/ n.quantity.t = "undefined")
    ]_vars

\* C12: deleteOrder(id) on an existing order is answered 200 and removes exactly that
\* row, every other Order row, every Product and both counters staying as they were,
\* and getOrder(id) on the state it leaves finds nothing; when no row has the id it is
\* answered 404 "Order not found" and nothing changes.
C12_DeleteOrder ==
    [][\A r \in Reqs :
         (req[r].op = "deleteOrder" /\ Answers(r))
           => IF \E o \in orders : o.order_id = req[r].id
              THEN /\ req'[r].status = 200
                   /\ orders' = { o \in orders : o.order_id # req[r].id }
                   /\ Cardinality(orders') = Cardinality(orders) - 1
                   /\ products' = products
                   /\ seqProducts' = seqProducts /\ seqOrders' = seqOrders
                   /\ SelectOrderJoin(req[r].id)' = {}
              ELSE /\ req'[r].status = 404 /\ req'[r].message = "Order not found"
                   /\ store' = store
    ]_vars

\* C12 witness: order 1 has been deleted and order 2 is still in the ledger.
C12_Witness ==
    \E r \in Reqs :
        /\ req[r].op = "deleteOrder" /\ req[r].pc = "done" /\ req[r].status = 200
        /\ req[r].id = 1
        /\ \A o \in orders : o.order_id # 1
        /\ \E o \in orders : o.order_id = 2

\* C13: deleteAllOrders is always answered 200, on an empty ledger too; it leaves no
\* Order row, leaves the catalog and the counters as they were, and the count it
\* reports is the number of Order rows there were when it ran.
C13_DeleteAllOrders ==
    [][\A r \in Reqs :
         (req[r].op = "deleteAllOrders" /\ req[r].pc = "run" /\ req'[r] # req[r])
           => /\ req'[r].pc = "done" /\ req'[r].status = 200
              /\ req'[r].data[1].changes = Cardinality(orders)
              /\ orders' = {}
              /\ products' = products
              /\ seqProducts' = seqProducts /\ seqOrders' = seqOrders
    ]_vars

\* C13 witness: deleteAllOrders has reported 2 rows removed.
C13_Witness ==
    \E r \in Reqs :
        /\ req[r].op = "deleteAllOrders" /\ req[r].pc = "done" /\ req[r].status = 200
        /\ req[r].data[1].changes = 2
        /\ orders = {} /\ seqOrders = 2

\* rows is sorted non-increasing by the field.
NonIncreasing(data, field) ==
    LET rows == data IN
    \A i, j \in DOMAIN rows : i < j => rows[i][field] >= rows[j][field]

\* What C14 says of the rows of a top-sellers answer.
TopSellersShape(data) ==
    LET rows == data IN
    /\ Len(rows) <= 5
    /\ \A i \in DOMAIN rows : rows[i].total_quantity_sold > 0
    /\ \A i, j \in DOMAIN rows :
         i < j => rows[i].total_quantity_sold >= rows[j].total_quantity_sold

\* C14: in whatever reachable state topSellers is answered, it returns at most 5 rows,
\* each with total_quantity_sold > 0 and of a Product of the catalog that has an
\* order, sorted non-increasing by total_quantity_sold (by the quantity sold, whatever
\* the revenue).
C14_TopSellers ==
    [][\A r \in Reqs :
         (req[r].op = "topSellers" /\ Answers(r))
           => LET rows == req'[r].data IN
                /\ req'[r].status = 200
                /\ TopSellersShape(rows)
                /\ \A i \in DOMAIN rows :
                     /\ \E p \in products : p.id = rows[i].id
                     /\ \E o \in orders : o.product_id = rows[i].id
    ]_vars

\* C14 witness: six products have orders and the answer holds five; product 2 (2
\* units) is ranked above product 3 (1 unit) at the same revenue, and above a product
\* with a larger revenue.
C14_Witness ==
    \E r \in Reqs :
        /\ req[r].op = "topSellers" /\ req[r].pc = "done"
        /\ Len(req[r].data) = 5
        /\ Cardinality({ o.product_id : o \in orders }) = 6
        /\ \E i, j, k \in DOMAIN req[r].data :
             /\ i < j /\ i < k
             /\ req[r].data[i].id = 2 /\ req[r].data[j].id = 3
             /\ req[r].data[i].total_quantity_sold = 2
             /\ req[r].data[j].total_quantity_sold = 1
             /\ req[r].data[i].total_revenue = req[r].data[j].total_revenue
             /\ req[r].data[k].total_revenue > req[r].data[i].total_revenue

FilteredAndLimited(topRows, perfRows) ==
    LET top == topRows
        perf == perfRows
        sold == { j \in DOMAIN perf : perf[j].total_sold > 0 }
        included == { top[i].id : i \in DOMAIN top }
    IN  /\ \A i \in DOMAIN top :
             \E j \in sold :
               /\ perf[j].id = top[i].id
               /\ perf[j].total_sold = top[i].total_quantity_sold
               /\ perf[j].order_count = top[i].number_of_orders
               /\ perf[j].revenue = top[i].total_revenue
        /\ Len(top) = (IF Cardinality(sold) < 5 THEN Cardinality(sold) ELSE 5)
        /\ Cardinality(included) = Len(top)
        /\ \A j \in sold :
             perf[j].id \notin included
               => \A i \in DOMAIN top : perf[j].total_sold <= top[i].total_quantity_sold

\* C16: in whatever reachable state either report is answered, the rows of topSellers
\* are rows of productPerformance with total_sold > 0 and the same id, quantity sum,
\* order count and revenue; there are min(5, number of productPerformance rows with
\* total_sold > 0) of them; and no product left out has a strictly larger total_sold
\* than one included.
C16_TopSellersOfPerformance ==
    [][\A r \in Reqs :
         /\ (req[r].op = "topSellers" /\ Answers(r))
              => FilteredAndLimited(req'[r].data, ProductPerformanceData)
         /\ (req[r].op = "productPerformance" /\ Answers(r))
              => FilteredAndLimited(TopSellersData, req'[r].data)
    ]_vars

\* C16 witness: productPerformance has answered with six rows that have sales, of
\* which topSellers leaves one out, one that sold as much as the last it includes.
C16_Witness ==
    \E r \in Reqs :
        /\ req[r].op = "productPerformance" /\ req[r].pc = "done"
        /\ req[r].data = ProductPerformanceData
        /\ Cardinality({ j \in DOMAIN req[r].data : req[r].data[j].total_sold > 0 }) = 6
        /\ Len(TopSellersData) = 5
        /\ req[r].data[6].total_sold = TopSellersData[5].total_quantity_sold
        /\ req[r].data[1].total_sold > req[r].data[6].total_sold

\* The counts and sums C17 says salesSummary reports, over every Order row.
SalesSummaryTotals(data) ==
    LET d == data IN
    /\ d.total_orders = Cardinality(orders)
    /\ d.total_items_sold = SumField(orders, "quantity")
    /\ d.total_revenue = SumField(orders, "total_price")
    /\ orders = {} => d.average_order_value = 0

ReadOps ==
    {"listProducts", "getProduct", "listOrders", "getOrder", "topSellers",
     "salesSummary", "productPerformance"}

\* The data a read request q is answered with when its query runs in the current state.
ReadResult(q) ==
    CASE q.op = "listProducts" -> SelectProducts
      [] q.op = "listOrders" -> SelectOrders
      [] q.op = "topSellers" -> TopSellersData
      [] q.op = "salesSummary" -> << SalesSummaryData >>
      [] q.op = "productPerformance" -> ProductPerformanceData
      [] q.op = "getProduct" ->
           IF SelectProduct(Num(q.id)) = {} THEN NoData
           ELSE << CHOOSE p \in SelectProduct(Num(q.id)) : TRUE >>
      [] q.op = "getOrder" ->
           IF SelectOrderJoin(q.id) = {} THEN NoData
           ELSE << CHOOSE o \in SelectOrderJoin(q.id) : TRUE >>

\* C18: no step of a read request (listProducts, getProduct, listOrders, getOrder,
\* topSellers, salesSummary, productPerformance) changes a Product row, an Order row
\* or an id counter, and the answer it gives is the result of its query on that
\* unchanged store, a function of the rows and of the id asked for alone: a second call
\* with no write in between finds the same store and returns the same.
C18_ReadsChangeNothing ==
    [][\A r \in Reqs :
         (req'[r] # req[r] /\ req'[r].op \in ReadOps)
           => /\ store' = store
              /\ req'[r].pc = "done"
                   => LET again == ReadResult(req[r]) IN
                        /\ req'[r].data = again
                        /\ req'[r].status =
                             (IF req[r].op \in {"getProduct", "getOrder"} /\ again = NoData
                              THEN 404 ELSE 200)
    ]_vars

\* C18 witness: a topSellers answer with rows, given after product 1, which has
\* orders, was deleted, and equal to what topSellers returns now.
C18_Witness ==
    \E r \in Reqs :
        /\ req[r].op = "topSellers" /\ req[r].pc = "done"
        /\ Len(req[r].data) >= 2
        /\ req[r].data = TopSellersData
        /\ \A p \in products : p.id # 1
        /\ \E o \in orders : o.product_id = 1

VisibleOrders(id) ==
    { o \in orders : o.order_id = id /\ \E p \in products : p.id = o.product_id }

\* C21: when deleteProduct is called on a Product that has an Order, a success answer
\* (200) leaves a state in which getOrder of that order finds nothing, and a failure
\* answer (400 or more) leaves a state in which getOrder of that order still finds it;
\* and getOrder, when the store answers it, says 404 exactly when it finds nothing and
\* 200 otherwise.
C21_DeleteProductThenGetOrder ==
    [][\A r \in Reqs :
         /\ (req[r].op = "deleteProduct" /\ Answers(r))
              => \A o \in orders :
                   (o.product_id = req[r].id /\ \E p \in products : p.id = req[r].id)
                     => /\ req'[r].status \in {200, 500}
                        /\ req'[r].status = 200 => SelectOrderJoin(o.order_id)' = {}
                        /\ req'[r].status >= 400 => SelectOrderJoin(o.order_id)' # {}
         /\ (req[r].op = "getOrder" /\ Answers(r) /\ req'[r].status # 500)
              => /\ SelectOrderJoin(req[r].id) = {} => req'[r].status = 404
                 /\ SelectOrderJoin(req[r].id) # {} => req'[r].status = 200
    ]_vars

\* C21 witness: product 1 is gone, its order 1 is still in the ledger, and getOrder(1)
\* has been answered 404.
C21_Witness ==
    \E r \in Reqs :
        /\ req[r].op = "getOrder" /\ req[r].pc = "done" /\ req[r].status = 404
        /\ req[r].id = 1
        /\ \E o \in orders : o.order_id = 1 /\ o.product_id = 1
        /\ \A p \in products : p.id # 1

\* C22: getOrder(id) and updateOrder(id, q), when the store answers the lookup, say
\* 404 "Order not found" exactly when no Order row with that id has its Product in the
\* catalog; otherwise getOrder returns the row and updateOrder goes on to its write.
C22_NotFoundIffNoVisibleOrder ==
    [][\A r \in Reqs :
         (/\ req[r].op \in {"getOrder", "updateOrder"} /\ req[r].pc = "get"
          /\ req'[r] # req[r] /\ req'[r].status # 500)
           => IF VisibleOrders(req[r].id) = {}
              THEN /\ req'[r].pc = "done" /\ req'[r].status = 404
                   /\ req'[r].message = "Order not found"
              ELSE IF req[r].op = "getOrder"
              THEN /\ req'[r].pc = "done" /\ req'[r].status = 200
                   /\ req'[r].data[1].order_id = req[r].id
              ELSE req'[r].pc = "run"
    ]_vars

\* C22 witness: order 1 is in the ledger, its product is gone, and updateOrder(1, q)
\* has been answered 404.
C22_Witness ==
    \E r \in Reqs :
        /\ req[r].op = "updateOrder" /\ req[r].pc = "done" /\ req[r].status = 404
        /\ req[r].id = 1
        /\ \E o \in orders : o.order_id = 1
        /\ VisibleOrders(1) = {}

\* C22 as stated: 404 exactly when no Order row has the id, whatever became of its
\* Product.
C22_Original ==
    [][\A r \in Reqs :
         (/\ req[r].op \in {"getOrder", "updateOrder"} /\ req[r].pc = "get"
          /\ req'[r] # req[r] /\ req'[r].status # 500)
           => (req'[r].status = 404 <=> ~ \E o \in orders : o.order_id = req[r].id)
    ]_vars

\* C23: a step of a request that changes the Products table, the Orders table or a
\* counter is the step that answers the request, and the answer is a success: so a
\* request answered 400, 404 or 500 has changed nothing, and no request writes twice.
C23_NoPartialWrites ==
    [][\A r \in Reqs :
         (req'[r] # req[r])
           => /\ store' # store
                   => /\ req[r].pc = "run" /\ req'[r].pc = "done"
                      /\ req'[r].status \in {200, 201}
              /\ (req'[r].pc = "done" /\ req'[r].status >= 400) => store' = store
    ]_vars

\* C23 witness: a createOrder found its product, its INSERT failed and was answered
\* 500, and the ledger and its counter are as they were at the start.
C23_Witness ==
    \E r \in Reqs :
        /\ req[r].op = "createOrder" /\ req[r].pc = "done" /\ req[r].status = 500
        /\ req[r].row # <<>>
        /\ orders = {} /\ seqOrders = 0

\* A body that fails validation: a product body with an invalid name or price, an
\* order body without its quantity (or, for createOrder, its product_id) or with a
\* quantity that is not a number or is <= 0.
InvalidBody(q) ==
    \/ /\ q.op \in {"createProduct", "updateProduct"}
       /\ InvalidProductBody(q.name, q.price)
    \/ /\ q.op \in {"createOrder", "updateOrder"}
       /\ \/ q.quantity.t = "undefined"
          \/ QuantityOutOfRange(q.quantity)
          \/ q.op = "createOrder" /\ q.product_id.t = "undefined"

\* C24: a createProduct, updateProduct, createOrder or updateOrder whose body fails
\* validation is answered 400 by the handler itself, before any statement is queued,
\* whether or not the id it addresses exists.
C24_ValidationBeforeStore ==
    [][\A r \in Reqs :
         LET n == req'[r] IN
         (Free(r) /\ n # req[r] /\ InvalidBody(n))
           => n.pc = "done" /\ n.status = 400
    ]_vars

\* Request r has a statement queued at the store.
Pending(r) == req[r].pc \in {"get", "run"}

\* C25: with a store that answers every access, under every interleaving a request
\* that has a statement queued is eventually answered; a request has at no time more
\* than one response, and has exactly one once it is done; the callback of a queued
\* statement can always run, whatever the other requests are doing; and some step is
\* always possible.
C25_EveryRequestAnswered ==
    /\ \A r \in Reqs : Pending(r) ~> (req[r].pc = "done" /\ req[r].sent = 1)
    /\ [](\A r \in Reqs :
            /\ req[r].sent <= 1
            /\ req[r].pc = "done" <=> req[r].sent = 1
            /\ Pending(r) => ENABLED <<Callback(r)>>_vars)
    /\ [](ENABLED <<NextRaceDelete>>_vars)

\* C25 witness: an updateOrder(1, q) has found order 1 and has its UPDATE queued; a
\* deleteOrder(1) that arrived after that lookup has removed the row and has its one
\* response, without waiting for the updateOrder.
C25_Witness ==
    \E r1, r2 \in Reqs :
        /\ req[r1].op = "updateOrder" /\ req[r1].pc = "run" /\ req[r1].id = 1
        /\ req[r1].sent = 0
        /\ req[r2].op = "deleteOrder" /\ req[r2].pc = "done" /\ req[r2].id = 1
        /\ req[r2].status = 200 /\ req[r2].sent = 1
        /\ \A o \in orders : o.order_id # 1

\* The Order rows a step inserts or changes.
Written == orders' \ orders

\* The unit price request r read in its lookup: the price of the Product row for
\* createOrder, the joined unit_price for updateOrder.
PriceRead(q) == IF q.op = "createOrder" THEN q.row[1].price ELSE q.row[1].unit_price

\* The product_id request r read in its lookup.
ProductRead(q) == IF q.op = "createOrder" THEN q.row[1].id ELSE q.row[1].product_id

\* Request r's lookup is answered with a row in this step.
Looks(r) ==
    /\ req[r].op \in {"createOrder", "updateOrder"}
    /\ req[r].pc = "get" /\ req'[r].pc = "run"

\* Request r's INSERT or UPDATE is executed in this step.
Writes(r) ==
    /\ req[r].op \in {"createOrder", "updateOrder"}
    /\ req[r].pc = "run" /\ req'[r].pc = "done" /\ req'[r].status \in {200, 201}

\* C26: under every interleaving of createOrder and updateOrder with updateProduct on
\* the same Product, the price a request reads in its lookup is the price the catalog
\* stores for the Product at that moment, and the row the request then inserts or
\* updates has total_price = (the price it read) x (the row's quantity): a price the
\* Product held between the arrival of the request and its write, and the current
\* price whenever the catalog still holds the price that was read.
C26_TotalFromPriceRead ==
    [][\A r \in Reqs :
         /\ Looks(r)
              => \E p \in products :
                   /\ p.id = ProductRead(req'[r])
                   /\ p.price = PriceRead(req'[r])
         /\ Writes(r)
              => \A o \in Written :
                   /\ o.total_price = PriceRead(req[r]) * o.quantity
                   /\ \A p \in products :
                        (p.id = o.product_id /\ p.price = PriceRead(req[r]))
                          => o.total_price = p.price * o.quantity
    ]_vars

\* C26 witness: a createOrder read the seed price of product 1; the product was then
\* repriced to 100 and another createOrder inserted order 1 at that price; the first
\* createOrder then inserted order 2, computed from the seed price it had read.
C26_Witness ==
    \E r1, r2 \in Reqs :
        /\ req[r2].op = "createOrder" /\ req[r2].pc = "done" /\ req[r2].status = 201
        /\ req[r2].data[1].order_id = 1 /\ req[r2].row[1].price = 100
        /\ req[r1].op = "createOrder" /\ req[r1].pc = "done" /\ req[r1].status = 201
        /\ req[r1].data[1].order_id = 2
        /\ \E o \in orders :
             /\ o.order_id = 2 /\ o.product_id = 1
             /\ o.total_price = o.quantity * sampleProducts[1][2]
        /\ \A p \in products : p.id = 1 => p.price # sampleProducts[1][2]

\* C26 as stated: a row that is inserted or updated has total_price = (the price the
\* catalog stores for its product_id at that moment) x (its quantity).
C26_Original ==
    [][\A o \in Written :
         \E p \in products' : p.id = o.product_id /\ o.total_price = p.price * o.quantity
    ]_vars

\* The prices product id can hold in SpecRaceTwo: its seed price and the price its
\* updateProduct sets.
Held(id) == {sampleProducts[id][2]} \cup (IF id = 1 THEN {100} ELSE {200})

\* C28: under every interleaving and any store failure, the row a lookup returns to a
\* request is the stored row of the product the request names (createOrder) or of the
\* product of the order it names (updateOrder); every row a step inserts or changes is
\* written by a createOrder or updateOrder with the product_id of that lookup and
\* total_price = (the price of that lookup) x (the row's quantity); so in every
\* reachable state the total_price of every Order row is a price its own product has
\* held, times its quantity.
C28_TotalFromOwnProduct ==
    /\ [][\A r \in Reqs :
            (req'[r] # req[r])
              => /\ (Looks(r) /\ req[r].op = "createOrder")
                      => /\ req'[r].row[1] \in products
                         /\ req'[r].row[1].id = req[r].product_id.n
                 /\ (Looks(r) /\ req[r].op = "updateOrder")
                      => \E o \in orders, p \in products :
                           /\ o.order_id = req[r].id /\ p.id = o.product_id
                           /\ req'[r].row[1].product_id = p.id
                           /\ req'[r].row[1].unit_price = p.price
                 /\ \A o \in Written :
                      /\ Writes(r)
                      /\ o.product_id = ProductRead(req[r])
                      /\ o.total_price = PriceRead(req[r]) * o.quantity
       ]_vars
    /\ [](\A o \in orders : \E price \in Held(o.product_id) :
            o.total_price = price * o.quantity)

\* C28 witness: after a statement has failed, product 1 has been deleted and product 2
\* repriced, an order of product 2 is in the ledger with a total computed from the
\* seed price of product 2, and an order of product 1 with a total from its seed price.
C28_Witness ==
    /\ \E r \in Reqs : req[r].pc = "done" /\ req[r].status = 500
    /\ \A p \in products : p.id # 1
    /\ \E p \in products : p.id = 2 /\ p.price = 200
    /\ \E o \in orders :
         o.product_id = 2 /\ o.total_price = o.quantity * sampleProducts[2][2]
    /\ \E o \in orders :
         o.product_id = 1 /\ o.total_price = o.quantity * sampleProducts[1][2]

\* C29: the UPDATE of an updateOrder writes the quantity of its request together with
\* the total computed from that quantity, which is price x quantity when the catalog
\* still holds the price the request read; the UPDATE of an updateProduct writes the
\* name and the price of its request together; so when two updateOrder requests on the
\* same order, or two updateProduct requests on the same product, have both been
\* answered 200 (every client, when there are more than two), the row holds the pair
\* of one of them.
C29_LastWriteWins ==
    /\ [][\A r \in Reqs :
            /\ (Writes(r) /\ req[r].op = "updateOrder")
                 => \A o \in orders' :
                      o.order_id = req[r].id
                        => /\ o.quantity = req[r].quantity.n
                           /\ o.total_price = PriceRead(req[r]) * req[r].quantity.n
                           /\ \A p \in products :
                                (p.id = o.product_id /\ p.price = PriceRead(req[r]))
                                  => o.total_price = p.price * req[r].quantity.n
            /\ (req[r].op = "updateProduct" /\ Answers(r) /\ req'[r].status = 200)
                 => \A p \in products' :
                      p.id = req[r].id
                        => p.name = req[r].name.s /\ p.price = ParseFloat(req[r].price).n
       ]_vars
    /\ [](\A op \in {"updateOrder", "updateProduct"}, id \in {1, 2} :
            (\A r \in Reqs :
               /\ req[r].pc = "done" /\ req[r].status = 200
               /\ req[r].op = op /\ req[r].id = id)
              => /\ op = "updateOrder"
                      => \A o \in orders :
                           o.order_id = id
                             => \E r \in Reqs :
                                  /\ o.quantity = req[r].quantity.n
                                  /\ o.total_price = PriceRead(req[r]) * req[r].quantity.n
                 /\ op = "updateProduct"
                      => \A p \in products :
                           p.id = id
                             => \E r \in Reqs :
                                  /\ p.name = req[r].name.s
                                  /\ p.price = ParseFloat(req[r].price).n)

\* C29 witness: two updateOrder requests on order 1, with quantities 2 and 3, both
\* looked the order up while it still had the quantity 1 it was created with, no
\* product changed, both have been answered 200, and the row holds the quantity and
\* the total of the request with quantity 3.
C29_Witness ==
    \E r1, r2 \in Reqs :
        /\ req[r1].op = "updateOrder" /\ req[r1].pc = "done" /\ req[r1].status = 200
        /\ req[r2].op = "updateOrder" /\ req[r2].pc = "done" /\ req[r2].status = 200
        /\ req[r1].id = 1 /\ req[r2].id = 1
        /\ req[r1].quantity = Num(2) /\ req[r2].quantity = Num(3)
        /\ req[r1].row[1].quantity = 1 /\ req[r2].row[1].quantity = 1
        /\ products = seedProducts
        /\ \E o \in orders :
             /\ o.order_id = 1 /\ o.quantity = 3
             /\ o.total_price = 3 * sampleProducts[1][2]

\* C27: under every interleaving of createOrder with deleteProduct, a row that is
\* inserted into Orders has a product_id for which a Product row exists at the moment
\* of the insert.
C27_InsertHasProduct ==
    [][\A o \in Written :
         (\A x \in orders : x.order_id # o.order_id)
           => \E p \in products' : p.id = o.product_id
    ]_vars

\* C30: when updateOrder answers 200, the Order row with its id exists right after the
\* step that answers and holds the quantity and the total_price of the response.
C30_UpdateOrderSuccessHasRow ==
    [][\A r \in Reqs :
         (req[r].op = "updateOrder" /\ Answers(r) /\ req'[r].status = 200)
           => \E o \in orders' :
                /\ o.order_id = req[r].id
                /\ o.quantity = req'[r].data[1].quantity.n
                /\ o.total_price = req'[r].data[1].total_price.n
    ]_vars

====
